---- MODULE Spec2Model ----
(***************************************************************************)
(* Model of the proposals endpoint of the node's tequilapi                 *)
(* (src/tequilapi/endpoints/proposals.go): proposalsEndpoint.List with     *)
(* parsePriceBound, proposalToRes and addProposalMetrics, and the two      *)
(* collaborators it calls (proposal.Repository, QualityFinder).            *)
(*                                                                         *)
(* Go strings are sequences of one-character strings, so that              *)
(* concatenation (\o) and character-wise parsing are what they are in Go.  *)
(* A Go pointer is a sequence of length 0 (nil) or 1 (pointer to a value). *)
(* A Go slice is a record [isNil, elems].                                  *)
(* A uint64 is the sequence of its base-10 digits (numbers 0..9, most      *)
(* significant first, no leading zero; zero is <<0>>) where it is parsed   *)
(* from text: TLC's integers are 32 bits wide and cannot hold 2^64 - 1.    *)
(* Rates are natural numbers below 2^31. A time.Duration of d nanoseconds  *)
(* is the record [sec |-> d / Second, nsec |-> d % Second], the two parts  *)
(* Duration.Seconds() itself takes it apart into.                          *)
(***************************************************************************)
EXTENDS Integers, Sequences, FiniteSets, TLC

VARIABLES
    pc,          \* position of the request in List
    req,         \* the query parameters of the request (req.URL.Query())
    bounds,      \* locals upperTimePriceBound .. lowerGBPriceBound of List
    proposals,   \* local proposals of List (what the repository returned)
    err,         \* local err of List
    proposalsRes,\* local proposalsRes of List (the DTO slice)
    metrics,     \* local metrics of List (what the quality finder returned)
    calls,       \* the calls List made to its two collaborators, in order
    resp,        \* what was written to the http.ResponseWriter
    pe,          \* the fields of the proposalsEndpoint
    handling,    \* how many times the request has been handed to List
    first,       \* the first handling: its answer, what the collaborators gave
    other        \* the locals of a second List call that is not running now

\* the locals of the List call that is running
locals == <<pc, req, bounds, proposals, err, proposalsRes, metrics, calls, resp>>

\* what outlives a List call
outside == <<pe, handling, first, other>>

vars == <<pc, req, bounds, proposals, err, proposalsRes, metrics, calls, resp,
          pe, handling, first, other>>

----------------------------------------------------------------------------
(* Bounds of the model *)

\* longest proposal list the repository returns
MaxProposals == 2
\* longest metrics list the quality finder returns
MaxMetrics == 2
\* how many times one request is handled in a row
MaxHandlings == 2

----------------------------------------------------------------------------
(* Go values *)

Nil == <<>>
Ptr(v) == <<v>>
NilSlice == [isNil |-> TRUE, elems |-> <<>>]
Slice(s) == [isNil |-> FALSE, elems |-> s]

Range(s) == {s[i] : i \in 1..Len(s)}

\* 2^n
RECURSIVE Pow2(_)
Pow2(n) == IF n = 0 THEN 1 ELSE 2 * Pow2(n - 1)

\* the k with 2^k <= n < 2^(k+1), for n >= 1
RECURSIVE Log2(_)
Log2(n) == IF n <= 1 THEN 0 ELSE 1 + Log2(n \div 2)

\* sequences over S of length at most n
SeqsUpTo(S, n) == UNION {[1..k -> S] : k \in 0..n}

\* the empty Go string
Empty == <<>>

\* error values: nil, a *strconv.NumError, an opaque repository error
NoError == [Func |-> "", Num |-> Empty, Err |-> ""]
ErrSyntax == "invalid syntax"
ErrRange == "value out of range"
NumError(fn, str, e) == [Func |-> fn, Num |-> str, Err |-> e]
RepoError == [Func |-> "Proposals", Num |-> Empty, Err |-> "repository failure"]

----------------------------------------------------------------------------
(* strconv.ParseUint(s, 10, 64), as called by parsePriceBound *)

DigitChars == {"0", "1", "2", "3", "4", "5", "6", "7", "8", "9"}

DigitValue(c) ==
    CASE c = "0" -> 0 [] c = "1" -> 1 [] c = "2" -> 2 [] c = "3" -> 3
      [] c = "4" -> 4 [] c = "5" -> 5 [] c = "6" -> 6 [] c = "7" -> 7
      [] c = "8" -> 8 [] c = "9" -> 9

\* 2^64 - 1 = 18446744073709551615
MaxUint64 == <<1,8,4,4,6,7,4,4,0,7,3,7,0,9,5,5,1,6,1,5>>

\* a < b for two digit sequences of the same length
RECURSIVE LexLess(_, _)
LexLess(a, b) ==
    IF a = <<>> THEN FALSE
    ELSE IF Head(a) # Head(b) THEN Head(a) < Head(b)
    ELSE LexLess(Tail(a), Tail(b))

\* a > b for two uint64 digit sequences (no leading zeros)
Greater(a, b) ==
    \/ Len(a) > Len(b)
    \/ Len(a) = Len(b) /\ LexLess(b, a)

\* n * 10 + d on digit sequences
MulAdd(n, d) == IF n = <<0>> THEN <<d>> ELSE Append(n, d)

\* the loop of ParseUint over the characters left, n being the value so far:
\* a character that is no digit is a syntax error (value 0), a value beyond
\* 2^64 - 1 is a range error (value 2^64 - 1); whichever comes first.
RECURSIVE ParseLoop(_, _, _)
ParseLoop(s, rest, n) ==
    IF rest = <<>> THEN [val |-> n, err |-> NoError]
    ELSE IF Head(rest) \notin DigitChars
        THEN [val |-> <<0>>, err |-> NumError("ParseUint", s, ErrSyntax)]
    ELSE IF Greater(MulAdd(n, DigitValue(Head(rest))), MaxUint64)
        THEN [val |-> MaxUint64, err |-> NumError("ParseUint", s, ErrRange)]
    ELSE ParseLoop(s, Tail(rest), MulAdd(n, DigitValue(Head(rest))))

ParseUint(s) ==
    IF s = Empty THEN [val |-> <<0>>, err |-> NumError("ParseUint", s, ErrSyntax)]
    ELSE ParseLoop(s, s, <<0>>)

----------------------------------------------------------------------------
(* parsePriceBound *)

\* a parsePriceBound that drops the error of ParseUint
parsePriceBoundSilent(r, key) ==
    IF r[key] = Empty THEN [ptr |-> Nil, err |-> NoError]
    ELSE [ptr |-> Ptr(ParseUint(r[key]).val), err |-> NoError]

\* parsePriceBound(req, key): (*uint64, error)
parsePriceBound(r, key) ==
    IF r[key] = Empty THEN [ptr |-> Nil, err |-> NoError]
    ELSE [ptr |-> Ptr(ParseUint(r[key]).val), err |-> ParseUint(r[key]).err]

----------------------------------------------------------------------------
(* Inputs: the requests a client sends *)

Str1(a) == <<a>>
Str2(a, b) == <<a, b>>

True == <<"t", "r", "u", "e">>

\* 2^64 - 1 and 2^64 as decimal text
MaxUint64Text ==
    <<"1","8","4","4","6","7","4","4","0","7","3","7","0","9","5","5","1","6","1","5">>
OverflowText ==
    <<"1","8","4","4","6","7","4","4","0","7","3","7","0","9","5","5","1","6","1","6">>

BoundKeys == <<"upper_time_price_bound", "lower_time_price_bound",
               "upper_gb_price_bound", "lower_gb_price_bound">>

UpperTimeInputs == {Empty, Str1("7"), Str1("x"), OverflowText}
LowerTimeInputs == {Empty, <<"0", "0", "7">>, Str1("x")}
UpperGBInputs == {Empty, MaxUint64Text, Str2("-", "1")}
LowerGBInputs == {Empty, Str1("0"), Str1("x")}

FetchInputs == {True, <<"T", "r", "u", "e">>, Str1("1"), Empty}

\* the exact-match parameters: none given, one given, all given
ExactInputs ==
    LET none == [provider_id |-> Empty, service_type |-> Empty,
                 access_policy_id |-> Empty, access_policy_source |-> Empty]
    IN {none,
        [none EXCEPT !.provider_id = Str2("a", "b")],
        [none EXCEPT !.service_type = Str1("c")],
        [none EXCEPT !.access_policy_id = Str1("p")],
        [none EXCEPT !.access_policy_source = Str1("s")],
        [provider_id |-> Str2("a", "b"), service_type |-> Str1("c"),
         access_policy_id |-> Str1("p"), access_policy_source |-> Str1("s")]}

Requests ==
    {[provider_id |-> e.provider_id, service_type |-> e.service_type,
      access_policy_id |-> e.access_policy_id,
      access_policy_source |-> e.access_policy_source,
      upper_time_price_bound |-> ut, lower_time_price_bound |-> lt,
      upper_gb_price_bound |-> ug, lower_gb_price_bound |-> lg,
      fetch_connect_counts |-> f] :
        e \in ExactInputs, ut \in UpperTimeInputs, lt \in LowerTimeInputs,
        ug \in UpperGBInputs, lg \in LowerGBInputs, f \in FetchInputs}

NoRequest ==
    [provider_id |-> Empty, service_type |-> Empty, access_policy_id |-> Empty,
     access_policy_source |-> Empty, upper_time_price_bound |-> Empty,
     lower_time_price_bound |-> Empty, upper_gb_price_bound |-> Empty,
     lower_gb_price_bound |-> Empty, fetch_connect_counts |-> Empty]

----------------------------------------------------------------------------
(* Inputs: what the collaborators return *)

\* time.Second, in nanoseconds
Second == 1000000000

\* the time.Duration of sec whole seconds and nsec < Second nanoseconds
Duration(sec, nsec) == [sec |-> sec, nsec |-> nsec]

Location(continent, country, city, asn, isp, nodeType) ==
    [Continent |-> continent, Country |-> country, City |-> city,
     ASN |-> asn, ISP |-> isp, NodeType |-> nodeType]

Payment(type, amount, perTime, perByte) ==
    [Type |-> type, Price |-> [Amount |-> amount, Currency |-> "MYST"],
     Rate |-> [PerTime |-> perTime, PerByte |-> perByte]]

\* market.ServiceProposal values the repository holds
ProposalUniverse ==
    {[ID |-> 1, ProviderID |-> Str2("a", "b"), ServiceType |-> Str1("c"),
      Location |-> Location("EU", "NL", "Amsterdam", 1, "Telia", "residential"),
      AccessPolicies |-> Nil,
      PaymentMethod |-> Payment("BYTES_TIME", 5, Duration(2, 0), 7)],
     [ID |-> 2, ProviderID |-> Str1("a"), ServiceType |-> Str2("b", "c"),
      Location |-> Location("", "", "", 0, "", ""),
      AccessPolicies |-> Ptr(<<[ID |-> "p", Source |-> "s"]>>),
      PaymentMethod |-> Payment("BYTES_TIME", 0, Duration(1, Second \div 2), 0)],
     [ID |-> 3, ProviderID |-> Str1("a"), ServiceType |-> Str1("c"),
      Location |-> Location("EU", "LT", "", 2, "", "hosting"),
      AccessPolicies |-> Ptr(<<>>),
      PaymentMethod |-> Payment("TIME", 1, Duration(Pow2(24), Second - 1), 1)]}

ConnectCount(success, fail, timeout) ==
    [Success |-> success, Fail |-> fail, Timeout |-> timeout]

ConnectMetric(providerID, serviceType, count) ==
    [ProposalID |-> [ProviderID |-> providerID, ServiceType |-> serviceType],
     ConnectCount |-> count]

\* quality.ConnectMetric values the quality finder holds
MetricUniverse ==
    {ConnectMetric(Str2("a", "b"), Str1("c"), ConnectCount(5, 0, 0)),
     ConnectMetric(Str1("a"), Str2("b", "c"), ConnectCount(1, 2, 3)),
     ConnectMetric(Str2("a", "b"), Str1("c"), ConnectCount(0, 4, 0))}

\* what proposalRepository.Proposals returns: a list (nil or not) and an error
RepoLists == {NilSlice} \cup {Slice(s) : s \in SeqsUpTo(ProposalUniverse, MaxProposals)}
RepoErrors == {NoError, RepoError}

\* what qualityProvider.ProposalsMetrics returns
MetricLists == {NilSlice} \cup {Slice(s) : s \in SeqsUpTo(MetricUniverse, MaxMetrics)}

----------------------------------------------------------------------------
(* proposalToRes *)

\* the float64 sum float64(sec) + float64(nsec)/1e9 of Duration.Seconds()
\* is rounded to 53 bits: with 2^k <= sec < 2^(k+1) two neighbouring
\* float64 are 2^(k-52) apart, and the sum is rounded up to sec + 1 when
\* 1 - nsec/1e9 is less than half of that (never below 2^24 seconds)
SecondsRoundsUp(sec, nsec) ==
    /\ sec >= Pow2(24)
    /\ Second - nsec <= Second \div Pow2(53 - Log2(sec))

\* time.Duration.Seconds() converted to uint64, for d >= 0
DurationSeconds(d) ==
    IF SecondsRoundsUp(d.sec, d.nsec) THEN d.sec + 1 ELSE d.sec

\* a proposalToRes that forgets the access policies
proposalToResNoPolicies(p) ==
    [ID |-> p.ID,
     ProviderID |-> p.ProviderID,
     ServiceType |-> p.ServiceType,
     ServiceDefinition |->
        [LocationOriginate |->
            [Continent |-> p.Location.Continent,
             Country |-> p.Location.Country,
             City |-> p.Location.City,
             ASN |-> p.Location.ASN,
             ISP |-> p.Location.ISP,
             NodeType |-> p.Location.NodeType]],
     Metrics |-> Nil,
     AccessPolicies |-> Nil,
     PaymentMethod |->
        [Type |-> p.PaymentMethod.Type,
         Price |-> p.PaymentMethod.Price,
         Rate |-> [PerSeconds |-> DurationSeconds(p.PaymentMethod.Rate.PerTime),
                   PerBytes |-> p.PaymentMethod.Rate.PerByte]]]

\* proposalToRes(p): the proposalDTO of a market.ServiceProposal
proposalToRes(p) ==
    [ID |-> p.ID,
     ProviderID |-> p.ProviderID,
     ServiceType |-> p.ServiceType,
     ServiceDefinition |->
        [LocationOriginate |->
            [Continent |-> p.Location.Continent,
             Country |-> p.Location.Country,
             City |-> p.Location.City,
             ASN |-> p.Location.ASN,
             ISP |-> p.Location.ISP,
             NodeType |-> p.Location.NodeType]],
     Metrics |-> Nil,
     AccessPolicies |-> p.AccessPolicies,
     PaymentMethod |->
        [Type |-> p.PaymentMethod.Type,
         Price |-> p.PaymentMethod.Price,
         Rate |-> [PerSeconds |-> DurationSeconds(p.PaymentMethod.Rate.PerTime),
                   PerBytes |-> p.PaymentMethod.Rate.PerByte]]]

\* var proposalsRes proposalsRes: the slice left nil
ZeroProposalsRes == NilSlice

\* a DTO slice kept in the endpoint and not emptied between requests
LeftoverProposalsRes ==
    IF handling = 1 THEN Slice(<<>>) ELSE Slice(first.proposalsRes.elems)

\* a DTO slice kept in the endpoint and used by all requests under way
SharedProposalsRes == Slice(other.proposalsRes.elems)

\* proposalsRes{Proposals: []*proposalDTO{}}
NewProposalsRes == Slice(<<>>)

\* append(slice, v): the result is never a nil slice
AppendSlice(slice, v) == Slice(Append(slice.elems, v))

\* the loop of List over the repository's list (ranging over nil is no turn)
RECURSIVE ProjectAll(_, _)
ProjectAll(res, ps) ==
    IF ps = <<>> THEN res
    ELSE ProjectAll(AppendSlice(res, proposalToRes(Head(ps))), Tail(ps))

----------------------------------------------------------------------------
(* addProposalMetrics *)

\* the key of metricsMap
metricsKey(providerID, serviceType) == providerID \o serviceType

\* metricsMap after the first loop: a later record replaces an earlier one
\* of the same key
RECURSIVE BuildMetricsMap(_, _)
BuildMetricsMap(map, ms) ==
    IF ms = <<>> THEN map
    ELSE LET m == Head(ms)
             k == metricsKey(m.ProposalID.ProviderID, m.ProposalID.ServiceType)
         IN BuildMetricsMap(
                [x \in DOMAIN map \cup {k} |-> IF x = k THEN m ELSE map[x]],
                Tail(ms))

\* addProposalMetrics(proposals, metrics): the DTOs after the call
addProposalMetrics(dtos, ms) ==
    LET metricsMap == BuildMetricsMap(<<>>, ms.elems)
        Enrich(p) ==
            LET k == metricsKey(p.ProviderID, p.ServiceType)
            IN IF k \in DOMAIN metricsMap
               THEN [p EXCEPT !.Metrics =
                        Ptr([ConnectCount |-> metricsMap[k].ConnectCount])]
               ELSE p
    IN [dtos EXCEPT !.elems = [i \in 1..Len(dtos.elems) |-> Enrich(dtos.elems[i])]]

----------------------------------------------------------------------------
(* The response: utils.SendError, utils.WriteAsJSON and the JSON tags *)

StatusOK == 200
StatusBadRequest == 400
StatusInternalServerError == 500

\* the JSON object of a proposalDTO, by its struct tags: metrics and
\* access_policies are left out (<<>>) when the pointer is nil
dtoJSON(d) ==
    [id |-> d.ID,
     provider_id |-> d.ProviderID,
     service_type |-> d.ServiceType,
     service_definition |->
        [location_originate |->
            [continent |-> d.ServiceDefinition.LocationOriginate.Continent,
             country |-> d.ServiceDefinition.LocationOriginate.Country,
             city |-> d.ServiceDefinition.LocationOriginate.City,
             asn |-> d.ServiceDefinition.LocationOriginate.ASN,
             isp |-> d.ServiceDefinition.LocationOriginate.ISP,
             node_type |-> d.ServiceDefinition.LocationOriginate.NodeType]],
     metrics |-> IF d.Metrics = Nil THEN <<>>
                 ELSE <<[connect_count |-> d.Metrics[1].ConnectCount]>>,
     access_policies |-> d.AccessPolicies,
     payment_method |->
        [type |-> d.PaymentMethod.Type,
         price |-> d.PaymentMethod.Price,
         rate |-> [per_seconds |-> d.PaymentMethod.Rate.PerSeconds,
                   per_bytes |-> d.PaymentMethod.Rate.PerBytes]]]

\* the JSON value of proposalsRes: {"proposals": null} for a nil slice,
\* {"proposals": [...]} otherwise
proposalsResJSON(res) ==
    [proposals |-> [null |-> res.isNil,
                    items |-> [i \in 1..Len(res.elems) |-> dtoJSON(res.elems[i])]]]

NoBody == [proposals |-> [null |-> TRUE, items |-> <<>>]]

\* nothing written yet
NoResponse == [written |-> FALSE, status |-> 0, hasPayload |-> FALSE,
               message |-> NoError, body |-> NoBody]

\* utils.SendError(resp, err, httpCode): the status and the error's message
SendError(e, httpCode) ==
    [written |-> TRUE, status |-> httpCode, hasPayload |-> FALSE,
     message |-> e, body |-> NoBody]

\* utils.WriteAsJSON(proposalsRes, resp): status 200 and the encoded value
WriteAsJSON(res) ==
    [written |-> TRUE, status |-> StatusOK, hasPayload |-> TRUE,
     message |-> NoError, body |-> proposalsResJSON(res)]

----------------------------------------------------------------------------
(* proposalsEndpoint.List *)

NoBounds == [upperTime |-> Nil, lowerTime |-> Nil, upperGB |-> Nil, lowerGB |-> Nil]

\* the four parsePriceBound calls of List, in order, up to the first error
ParseBounds(r) ==
    LET ut == parsePriceBound(r, "upper_time_price_bound")
        lt == parsePriceBound(r, "lower_time_price_bound")
        ug == parsePriceBound(r, "upper_gb_price_bound")
        lg == parsePriceBound(r, "lower_gb_price_bound")
        b1 == [NoBounds EXCEPT !.upperTime = ut.ptr]
        b2 == [b1 EXCEPT !.lowerTime = lt.ptr]
        b3 == [b2 EXCEPT !.upperGB = ug.ptr]
        b4 == [b3 EXCEPT !.lowerGB = lg.ptr]
    IN IF ut.err # NoError THEN [b |-> b1, err |-> ut.err]
       ELSE IF lt.err # NoError THEN [b |-> b2, err |-> lt.err]
       ELSE IF ug.err # NoError THEN [b |-> b3, err |-> ug.err]
       ELSE IF lg.err # NoError THEN [b |-> b4, err |-> lg.err]
       ELSE [b |-> b4, err |-> NoError]

\* a Filter with the GB bounds the wrong way round
FilterSwapped(r, b) ==
    [ProviderID |-> r.provider_id,
     ServiceType |-> r.service_type,
     AccessPolicyID |-> r.access_policy_id,
     AccessPolicySource |-> r.access_policy_source,
     LowerGBPriceBound |-> b.upperGB,
     UpperGBPriceBound |-> b.lowerGB,
     LowerTimePriceBound |-> b.lowerTime,
     UpperTimePriceBound |-> b.upperTime,
     ExcludeUnsupported |-> TRUE]

\* the proposal.Filter List passes to the repository
Filter(r, b) ==
    [ProviderID |-> r.provider_id,
     ServiceType |-> r.service_type,
     AccessPolicyID |-> r.access_policy_id,
     AccessPolicySource |-> r.access_policy_source,
     LowerGBPriceBound |-> b.lowerGB,
     UpperGBPriceBound |-> b.upperGB,
     LowerTimePriceBound |-> b.lowerTime,
     UpperTimePriceBound |-> b.upperTime,
     ExcludeUnsupported |-> TRUE]

\* the flag read as strconv.ParseBool would read it
fetchesConnectCountsParseBool(r) ==
    r.fetch_connect_counts \in {True, <<"T", "r", "u", "e">>, Str1("1")}

\* fetchConnectCounts == "true"
fetchesConnectCounts(r) == r.fetch_connect_counts = True

\* entries of the call log
ProposalsCall(f) == [callee |-> "Proposals", filter |-> <<f>>]
ProposalsMetricsCall == [callee |-> "ProposalsMetrics", filter |-> <<>>]

\* NewProposalsEndpoint(proposalRepository, qualityProvider)
NewProposalsEndpoint ==
    [proposalRepository |-> "proposalRepository",
     qualityProvider |-> "qualityProvider"]

\* no handling is over yet
NoFirst == [resp |-> NoResponse, proposals |-> NilSlice, err |-> NoError,
            proposalsRes |-> NilSlice, metrics |-> NilSlice]

\* the locals of a List call that has not got its request yet
IdleLocals ==
    [pc |-> "idle", req |-> NoRequest, bounds |-> NoBounds,
     proposals |-> NilSlice, err |-> NoError, proposalsRes |-> NilSlice,
     metrics |-> NilSlice, calls |-> <<>>, resp |-> NoResponse]

Init ==
    /\ pe = NewProposalsEndpoint
    /\ handling = 1
    /\ first = NoFirst
    /\ other = IdleLocals
    /\ pc = "idle"
    /\ req = NoRequest
    /\ bounds = NoBounds
    /\ proposals = NilSlice
    /\ err = NoError
    /\ proposalsRes = NilSlice
    /\ metrics = NilSlice
    /\ calls = <<>>
    /\ resp = NoResponse

\* the router hands a GET /proposals request to List
Receive ==
    /\ pc = "idle"
    /\ \E r \in Requests : req' = r
    /\ pc' = "parse"
    /\ UNCHANGED <<bounds, proposals, err, proposalsRes, metrics, calls, resp>>
    /\ UNCHANGED outside

\* List, the four bounds: the first parse error ends the request with 400
ListParse ==
    /\ pc = "parse"
    /\ LET pb == ParseBounds(req)
       IN /\ bounds' = pb.b
          /\ err' = pb.err
          /\ IF pb.err # NoError
             THEN /\ resp' = SendError(pb.err, StatusBadRequest)
                  /\ pc' = "done"
             ELSE /\ resp' = resp
                  /\ pc' = "proposals"
    /\ UNCHANGED <<req, proposals, proposalsRes, metrics, calls>>
    /\ UNCHANGED outside

\* an error check that never fires
repositoryFailedIgnored(e) == FALSE

\* err != nil after the repository call
repositoryFailed(e) == e # NoError

\* a handler that calls the repository again after an error
ListProposalsRetry ==
    /\ pc = "proposals"
    /\ \E list \in RepoLists, e \in RepoErrors :
        /\ calls' = Append(calls, ProposalsCall(Filter(req, bounds)))
        /\ proposals' = list
        /\ err' = e
        /\ IF repositoryFailed(e)
           THEN /\ resp' = resp
                /\ pc' = IF Len(calls) = 0 THEN "proposals" ELSE "done"
                /\ proposalsRes' = proposalsRes
           ELSE /\ resp' = resp
                /\ proposalsRes' = ProjectAll(NewProposalsRes, list.elems)
                /\ pc' = IF fetchesConnectCounts(req) THEN "metrics" ELSE "write"
    /\ UNCHANGED <<req, bounds, metrics>>
    /\ UNCHANGED outside

\* List, the repository call: an error ends the request with 500, otherwise
\* the proposals are projected to DTOs
ListProposals ==
    /\ pc = "proposals"
    /\ \E list \in RepoLists, e \in RepoErrors :
        /\ calls' = Append(calls, ProposalsCall(Filter(req, bounds)))
        /\ proposals' = list
        /\ err' = e
        /\ IF repositoryFailed(e)
           THEN /\ resp' = SendError(e, StatusInternalServerError)
                /\ pc' = "done"
                /\ proposalsRes' = proposalsRes
           ELSE /\ resp' = resp
                /\ proposalsRes' = ProjectAll(NewProposalsRes, list.elems)
                /\ pc' = IF fetchesConnectCounts(req) THEN "metrics" ELSE "write"
    /\ UNCHANGED <<req, bounds, metrics>>
    /\ UNCHANGED outside

\* List, fetch_connect_counts=true: the metrics call and addProposalMetrics
ListMetrics ==
    /\ pc = "metrics"
    /\ \E ms \in MetricLists :
        /\ calls' = Append(calls, ProposalsMetricsCall)
        /\ metrics' = ms
        /\ proposalsRes' = addProposalMetrics(proposalsRes, ms)
    /\ pc' = "write"
    /\ UNCHANGED <<req, bounds, proposals, err, resp>>
    /\ UNCHANGED outside

\* List, the last line: the envelope is written
ListWrite ==
    /\ pc = "write"
    /\ resp' = WriteAsJSON(proposalsRes)
    /\ pc' = "done"
    /\ UNCHANGED <<req, bounds, proposals, err, proposalsRes, metrics, calls>>
    /\ UNCHANGED outside

Next ==
    \/ Receive
    \/ ListParse
    \/ ListProposals
    \/ ListMetrics
    \/ ListWrite

Spec == Init /\ [][Next]_vars

----------------------------------------------------------------------------
(* The same request handled again, the collaborators unchanged *)

\* the requests handled more than once: no exact-match parameter or all of
\* them, the bounds all missing, one valid or one malformed, the connect
\* counts asked for or not
RepeatRequests ==
    LET none == [provider_id |-> Empty, service_type |-> Empty,
                 access_policy_id |-> Empty, access_policy_source |-> Empty]
    IN {r \in Requests :
        /\ [k \in DOMAIN none |-> r[k]] = none \/ (\A k \in DOMAIN none : r[k] # Empty)
        /\ r.fetch_connect_counts \in {True, Empty}
        /\ r.upper_time_price_bound \in {Empty, Str1("7")}
        /\ r.lower_time_price_bound = Empty
        /\ r.upper_gb_price_bound = Empty
        /\ r.lower_gb_price_bound \in {Empty, Str1("x")}}

ReceiveRepeat ==
    /\ Receive
    /\ req' \in RepeatRequests

\* the repository is unchanged: it returns what it returned the first time
ListProposalsSame ==
    /\ ListProposals
    /\ handling > 1 => (proposals' = first.proposals /\ err' = first.err)

\* the quality finder is unchanged: it returns what it returned the first time
ListMetricsSame ==
    /\ ListMetrics
    /\ handling > 1 => metrics' = first.metrics

\* the router hands the same request to List once more: a new call of List,
\* its locals and its ResponseWriter new
HandleAgain ==
    /\ pc = "done"
    /\ handling < MaxHandlings
    /\ handling' = handling + 1
    /\ first' = IF handling = 1
                THEN [resp |-> resp, proposals |-> proposals, err |-> err,
                      proposalsRes |-> proposalsRes, metrics |-> metrics]
                ELSE first
    /\ pc' = "parse"
    /\ bounds' = NoBounds
    /\ proposals' = NilSlice
    /\ err' = NoError
    /\ proposalsRes' = NilSlice
    /\ metrics' = NilSlice
    /\ calls' = <<>>
    /\ resp' = NoResponse
    /\ UNCHANGED <<req, pe, other>>

NextRepeat ==
    \/ ReceiveRepeat
    \/ ListParse
    \/ ListProposalsSame
    \/ ListMetricsSame
    \/ ListWrite
    \/ HandleAgain

SpecRepeat == Init /\ [][NextRepeat]_vars

----------------------------------------------------------------------------
(* Two List calls under way at once, each in its own goroutine *)

\* longest list a collaborator returns to one of two overlapping calls
MaxOverlapLen == 1

\* the requests of overlapping calls: one malformed bound, or none, the
\* connect counts asked for or not
OverlapRequests ==
    {r \in RepeatRequests :
        /\ r.provider_id = Empty
        /\ r.upper_time_price_bound = Empty
        /\ r.lower_gb_price_bound = Empty \/ r.fetch_connect_counts = Empty}

\* what the repository returns to overlapping calls: short lists of the
\* two proposals whose pairs give the same key
OverlapRepoLists ==
    {l \in RepoLists :
        /\ Len(l.elems) <= MaxOverlapLen
        /\ \A i \in 1..Len(l.elems) : l.elems[i].ID \in {1, 2}}

\* what the quality finder returns to overlapping calls: short lists of the
\* records with a successful connect
OverlapMetricLists ==
    {l \in MetricLists :
        /\ Len(l.elems) <= MaxOverlapLen
        /\ \A i \in 1..Len(l.elems) : l.elems[i].ConnectCount.Success > 0}

ReceiveOverlap ==
    /\ Receive
    /\ req' \in OverlapRequests

ListProposalsOverlap ==
    /\ ListProposals
    /\ proposals' \in OverlapRepoLists

ListMetricsOverlap ==
    /\ ListMetrics
    /\ metrics' \in OverlapMetricLists

\* the scheduler stops the goroutine that is running and runs the other one:
\* each goroutine keeps its own locals
Switch ==
    /\ other' = [pc |-> pc, req |-> req, bounds |-> bounds,
                 proposals |-> proposals, err |-> err,
                 proposalsRes |-> proposalsRes, metrics |-> metrics,
                 calls |-> calls, resp |-> resp]
    /\ pc' = other.pc
    /\ req' = other.req
    /\ bounds' = other.bounds
    /\ proposals' = other.proposals
    /\ err' = other.err
    /\ proposalsRes' = other.proposalsRes
    /\ metrics' = other.metrics
    /\ calls' = other.calls
    /\ resp' = other.resp
    /\ UNCHANGED <<pe, handling, first>>

NextConcurrent ==
    \/ ReceiveOverlap
    \/ ListParse
    \/ ListProposalsOverlap
    \/ ListMetricsOverlap
    \/ ListWrite
    \/ Switch

SpecConcurrent == Init /\ [][NextConcurrent]_vars

----------------------------------------------------------------------------
(* What the claims speak of, said without the code's own parsing *)

\* the digits of a decimal text, leading zeros dropped
RECURSIVE StripZeros(_)
StripZeros(n) ==
    IF Len(n) > 1 /\ Head(n) = 0 THEN StripZeros(Tail(n)) ELSE n

DigitsOf(s) == StripZeros([i \in 1..Len(s) |-> DigitValue(s[i])])

\* s is the base-10 text of an unsigned 64-bit integer
IsUint64Text(s) ==
    /\ s # Empty
    /\ \A i \in 1..Len(s) : s[i] \in DigitChars
    /\ ~Greater(DigitsOf(s), MaxUint64)

\* the parameter is given and is no unsigned 64-bit integer
Malformed(r, key) == r[key] # Empty /\ ~IsUint64Text(r[key])

HasMalformedBound(r) == \E i \in 1..Len(BoundKeys) : Malformed(r, BoundKeys[i])

\* the first malformed bound parameter, in the order List reads them
OffendingKey(r) ==
    BoundKeys[CHOOSE i \in 1..Len(BoundKeys) :
        /\ Malformed(r, BoundKeys[i])
        /\ \A j \in 1..(i - 1) : ~Malformed(r, BoundKeys[j])]

\* the bound a parameter's text stands for: none, or its number
BoundOf(s) == IF s = Empty THEN Nil ELSE Ptr(DigitsOf(s))

CallsTo(callee) == {i \in 1..Len(calls) : calls[i].callee = callee}

Handled == pc = "done"

----------------------------------------------------------------------------
(* Claims *)

\* C1: a request with a bound parameter that is given and does not parse as
\* a base-10 unsigned 64-bit integer never reaches a collaborator, and once
\* List has looked at it the request is over with status 400.
C1_MalformedBoundRejected ==
    HasMalformedBound(req) =>
        /\ calls = <<>>
        /\ pc \in {"parse", "done"}
        /\ Handled => (resp.written /\ resp.status = StatusBadRequest
                       /\ ~resp.hasPayload)

\* C1 witness: the last bound is malformed while the other three parse and
\* metrics are asked for; the request ended with 400.
C1_Witness ==
    /\ Handled
    /\ req.upper_time_price_bound = Str1("7")
    /\ req.lower_time_price_bound = <<"0", "0", "7">>
    /\ req.upper_gb_price_bound = MaxUint64Text
    /\ req.lower_gb_price_bound = Str1("x")
    /\ req.fetch_connect_counts = True
    /\ resp.status = StatusBadRequest

\* the (provider, service type) pair of a DTO and of a metrics record
SamePair(d, m) ==
    /\ d.ProviderID = m.ProposalID.ProviderID
    /\ d.ServiceType = m.ProposalID.ServiceType

\* addProposalMetrics has run in this request
Enriched == pc \in {"write", "done"} /\ CallsTo("ProposalsMetrics") # {}

\* C2: after addProposalMetrics every DTO whose pair is the pair of some
\* metrics record carries the connect count of a record of that pair, and
\* every DTO whose pair is the pair of no record carries no metrics.
C2_MetricsFollowPairs ==
    Enriched =>
        \A i \in 1..Len(proposalsRes.elems) :
            LET d == proposalsRes.elems[i]
                matching == {j \in 1..Len(metrics.elems) :
                                SamePair(d, metrics.elems[j])}
            IN IF matching = {}
               THEN d.Metrics = Nil
               ELSE /\ d.Metrics # Nil
                    /\ \E j \in matching :
                        d.Metrics[1].ConnectCount = metrics.elems[j].ConnectCount

\* C3: the key of the metrics index tells any two different pairs apart:
\* a DTO and a metrics record of different pairs never share a key.
C3_KeyInjective ==
    Enriched =>
        \A i \in 1..Len(proposalsRes.elems), j \in 1..Len(metrics.elems) :
            LET d == proposalsRes.elems[i]
                m == metrics.elems[j]
            IN ~SamePair(d, m) =>
                metricsKey(d.ProviderID, d.ServiceType)
                    # metricsKey(m.ProposalID.ProviderID, m.ProposalID.ServiceType)

\* the repository has been called and has returned an error
RepositoryFailed == CallsTo("Proposals") # {} /\ err # NoError

\* C4: when the repository returns an error the request is over with status
\* 500, no proposals payload is written and the quality finder is not called.
C4_RepositoryErrorIs500 ==
    RepositoryFailed =>
        /\ Handled
        /\ resp.written /\ resp.status = StatusInternalServerError
        /\ ~resp.hasPayload /\ resp.body = NoBody
        /\ CallsTo("ProposalsMetrics") = {}

\* C4 witness: the repository returned an error together with a list that
\* is not empty, in a request that asks for metrics.
C4_Witness ==
    /\ RepositoryFailed
    /\ Len(proposals.elems) > 0
    /\ req.fetch_connect_counts = True
    /\ resp.status = StatusInternalServerError

\* C5: the quality finder is called at most once, only when
\* fetch_connect_counts is exactly "true", and only after a repository call
\* that returned no error.
C5_MetricsCallOnceAfterProposals ==
    /\ Cardinality(CallsTo("ProposalsMetrics")) <= 1
    /\ \A i \in CallsTo("ProposalsMetrics") :
        /\ req.fetch_connect_counts = True
        /\ \E j \in CallsTo("Proposals") : j < i
        /\ err = NoError

\* C5 witness: the quality finder was called, second in the call log.
C5_Witness ==
    /\ Handled
    /\ CallsTo("ProposalsMetrics") = {2}
    /\ CallsTo("Proposals") = {1}

\* C6: no request calls the repository more than once, and a request whose
\* bounds are all empty or parseable has called it exactly once when List
\* is past the call.
C6_OneRepositoryCall ==
    /\ Cardinality(CallsTo("Proposals")) <= 1
    /\ (pc \in {"metrics", "write", "done"} /\ ~HasMalformedBound(req)) =>
            Cardinality(CallsTo("Proposals")) = 1

\* C6 witness: the one call returned an error and the request is over.
C6_Witness ==
    /\ Handled
    /\ ~HasMalformedBound(req)
    /\ err # NoError
    /\ Cardinality(CallsTo("Proposals")) = 1

\* C7: the Filter of a repository call carries the four exact-match
\* parameters verbatim, each bound nil exactly when its parameter is empty
\* and otherwise the number its own parameter stands for, and
\* ExcludeUnsupported = true.
C7_FilterFromQuery ==
    \A i \in CallsTo("Proposals") :
        LET f == calls[i].filter[1]
        IN /\ ~HasMalformedBound(req)
           /\ f.ProviderID = req.provider_id
           /\ f.ServiceType = req.service_type
           /\ f.AccessPolicyID = req.access_policy_id
           /\ f.AccessPolicySource = req.access_policy_source
           /\ f.UpperTimePriceBound = BoundOf(req.upper_time_price_bound)
           /\ f.LowerTimePriceBound = BoundOf(req.lower_time_price_bound)
           /\ f.UpperGBPriceBound = BoundOf(req.upper_gb_price_bound)
           /\ f.LowerGBPriceBound = BoundOf(req.lower_gb_price_bound)
           /\ f.ExcludeUnsupported = TRUE

\* C7 witness: a call whose filter has three bounds set (7 from "007" among
\* them) and one nil, and all exact-match parameters given.
C7_Witness ==
    /\ CallsTo("Proposals") # {}
    /\ req.provider_id = Str2("a", "b")
    /\ req.access_policy_source = Str1("s")
    /\ calls[1].filter[1].UpperTimePriceBound = Nil
    /\ calls[1].filter[1].LowerTimePriceBound = Ptr(<<7>>)
    /\ calls[1].filter[1].UpperGBPriceBound = Ptr(MaxUint64)
    /\ calls[1].filter[1].LowerGBPriceBound = Ptr(<<0>>)

\* the repository has been called and has returned no error
RepositorySucceeded == CallsTo("Proposals") # {} /\ err = NoError

\* C8: when the bounds parse and the repository returns no error, List
\* answers 200 with an envelope whose proposals field is an array, not null.
C8_ProposalsNeverNull ==
    (Handled /\ RepositorySucceeded) =>
        /\ resp.written /\ resp.status = StatusOK /\ resp.hasPayload
        /\ ~resp.body.proposals.null

\* C8 witness: the repository returned a nil list and List answered 200.
C8_Witness ==
    /\ Handled /\ RepositorySucceeded
    /\ proposals = NilSlice
    /\ resp.status = StatusOK

\* List answered a request that did not ask for metrics
AnsweredPlain ==
    Handled /\ RepositorySucceeded /\ req.fetch_connect_counts # True

\* what a response item takes from proposal p apart from the per-time rate
CarriedOver(item, p) ==
    /\ item.id = p.ID
    /\ item.provider_id = p.ProviderID
    /\ item.service_type = p.ServiceType
    /\ item.service_definition.location_originate =
        [continent |-> p.Location.Continent, country |-> p.Location.Country,
         city |-> p.Location.City, asn |-> p.Location.ASN,
         isp |-> p.Location.ISP, node_type |-> p.Location.NodeType]
    /\ item.access_policies = p.AccessPolicies
    /\ item.payment_method.type = p.PaymentMethod.Type
    /\ item.payment_method.price = p.PaymentMethod.Price
    /\ item.payment_method.rate.per_bytes = p.PaymentMethod.Rate.PerByte
    /\ item.metrics = <<>>

\* C9 as stated: without fetch_connect_counts=true the response holds one
\* item per proposal of the repository, in its order, every field taken
\* unmodified (the per-time rate of the payment method among them) and no
\* metrics.
C9_ProposalsUnmodified ==
    AnsweredPlain =>
        /\ Len(resp.body.proposals.items) = Len(proposals.elems)
        /\ \A i \in 1..Len(proposals.elems) :
            LET item == resp.body.proposals.items[i]
                p == proposals.elems[i]
            IN /\ CarriedOver(item, p)
               /\ item.payment_method.rate.per_seconds
                    = p.PaymentMethod.Rate.PerTime.sec
               /\ p.PaymentMethod.Rate.PerTime.nsec = 0

\* C9 amended: as C9, except that the per-time rate arrives as a whole
\* number of seconds, less than one second away from the proposal's rate.
C9_ProposalsProjected ==
    AnsweredPlain =>
        /\ Len(resp.body.proposals.items) = Len(proposals.elems)
        /\ \A i \in 1..Len(proposals.elems) :
            LET item == resp.body.proposals.items[i]
                p == proposals.elems[i]
            IN /\ CarriedOver(item, p)
               /\ item.payment_method.rate.per_seconds
                    \in {p.PaymentMethod.Rate.PerTime.sec,
                         p.PaymentMethod.Rate.PerTime.sec + 1}
               /\ (item.payment_method.rate.per_seconds
                    = p.PaymentMethod.Rate.PerTime.sec + 1)
                        => p.PaymentMethod.Rate.PerTime.nsec > 0

\* C9 witness: a request with no parameters answered with two different
\* proposals, one with access policies and a rate of one and a half seconds.
C9_Witness ==
    /\ AnsweredPlain
    /\ req = NoRequest
    /\ Len(proposals.elems) = 2
    /\ proposals.elems[1].ID = 2
    /\ proposals.elems[1].AccessPolicies # Nil
    /\ proposals.elems[1].PaymentMethod.Rate.PerTime = Duration(1, Second \div 2)
    /\ proposals.elems[2].ID = 1

\* the error List sends when parameter key alone carries the text v
ErrorFor(key, v) == ParseBounds([NoRequest EXCEPT ![key] = v]).err

\* C10: the error of a 400 response tells which parameter failed: the same
\* malformed text in any other bound parameter yields a different error.
C10_ErrorNamesParameter ==
    (Handled /\ resp.status = StatusBadRequest) =>
        \A i \in 1..Len(BoundKeys) :
            BoundKeys[i] # OffendingKey(req) =>
                ErrorFor(BoundKeys[i], req[OffendingKey(req)]) # resp.message

\* List has projected the repository's proposals to DTOs
Projected == pc \in {"metrics", "write", "done"} /\ RepositorySucceeded

\* C13: proposalToRes gives per_seconds as the whole seconds of the per-time
\* rate, what is left below a second cut off, and per_bytes as the per-byte
\* rate unchanged.
C13_RateInWholeSeconds ==
    Projected =>
        \A i \in 1..Len(proposals.elems) :
            LET rate == proposalsRes.elems[i].PaymentMethod.Rate
                from == proposals.elems[i].PaymentMethod.Rate
            IN /\ rate.PerSeconds = from.PerTime.sec
               /\ rate.PerBytes = from.PerByte

\* C14: addProposalMetrics changes nothing but the Metrics field: the DTO
\* list keeps its length and order, every DTO keeps its other fields, and
\* the metrics records of pairs that no DTO has change nothing (the DTOs
\* are what they would be had those records not been in the list).
C14_OnlyMetricsChange ==
    Enriched =>
        LET before == ProjectAll(NewProposalsRes, proposals.elems)
            after == proposalsRes
            Matches(m) == \E i \in 1..Len(before.elems) :
                            SamePair(before.elems[i], m)
            matched == Slice(SelectSeq(metrics.elems, Matches))
        IN /\ ~after.isNil
           /\ Len(after.elems) = Len(before.elems)
           /\ \A i \in 1..Len(before.elems) :
                [after.elems[i] EXCEPT !.Metrics = Nil] = before.elems[i]
           /\ after = addProposalMetrics(before, matched)

----------------------------------------------------------------------------
\* the request has been handled a second time, the collaborators returning
\* what they returned the first time
HandledAgain ==
    /\ handling > 1 /\ Handled
    /\ proposals = first.proposals /\ err = first.err
    /\ metrics = first.metrics

\* C11: under SpecRepeat, when a request has been handled twice and the
\* repository and the quality finder returned the second time what they
\* returned the first time, the second response is the first response:
\* same status, same proposal content; and the endpoint is as constructed.
C11_SecondHandlingSame ==
    HandledAgain =>
        /\ resp.status = first.resp.status
        /\ resp.hasPayload = first.resp.hasPayload
        /\ resp.body = first.resp.body
        /\ resp.message = first.resp.message
        /\ pe = NewProposalsEndpoint

\* a request answered 200 twice, with proposals and their connect counts
C11_Witness ==
    /\ HandledAgain
    /\ resp.status = StatusOK
    /\ first.resp.status = StatusOK
    /\ Len(proposals.elems) = MaxProposals
    /\ \E i \in 1..Len(proposalsRes.elems) : proposalsRes.elems[i].Metrics # Nil

----------------------------------------------------------------------------
\* the response of a List call that runs alone: request r, the repository
\* returning (ps, e), the quality finder returning ms
ListAlone(r, ps, e, ms) ==
    LET pb == ParseBounds(r)
        dtos == ProjectAll(Slice(<<>>), ps.elems)
    IN IF pb.err # NoError THEN SendError(pb.err, StatusBadRequest)
       ELSE IF e # NoError THEN SendError(e, StatusInternalServerError)
       ELSE IF r.fetch_connect_counts = True
            THEN WriteAsJSON(addProposalMetrics(dtos, ms))
            ELSE WriteAsJSON(dtos)

\* the List call l is over with the response it gives when run alone
AnsweredAsAlone(l) ==
    l.pc = "done" => l.resp = ListAlone(l.req, l.proposals, l.err, l.metrics)

\* the locals of the List call that is running, as a record
Running ==
    [pc |-> pc, req |-> req, bounds |-> bounds, proposals |-> proposals,
     err |-> err, proposalsRes |-> proposalsRes, metrics |-> metrics,
     calls |-> calls, resp |-> resp]

\* C12: under SpecConcurrent, however two List calls are interleaved, the
\* fields of the proposalsEndpoint are the ones it was constructed with, and
\* each call that is over has written the response it writes when it runs
\* alone with the same request and the same collaborator results.
C12_NoSharedState ==
    /\ pe = NewProposalsEndpoint
    /\ AnsweredAsAlone(Running)
    /\ AnsweredAsAlone(other)

\* two calls that overlapped: the other one stopped between the repository
\* call and the metrics call, with a DTO of its own, while this one ran from
\* its repository call to its 200 answer with a different DTO
C12_Witness ==
    /\ Handled /\ resp.status = StatusOK
    /\ Len(proposalsRes.elems) > 0
    /\ other.pc = "metrics"
    /\ Len(other.proposalsRes.elems) > 0
    /\ other.proposalsRes # proposalsRes
    /\ Len(calls) > Len(other.calls)

====
